---------------------------- MODULE Spec2Model ----------------------------
(***************************************************************************)
(* Azure AD Disable User action: the three lifecycle handlers invoke,      *)
(* error and halt of src/script.mjs, driven by the external job runner.    *)
(*                                                                         *)
(* Two revisions of the script are in the repository: src/src/script.mjs   *)
(* (variant "script") and src/unnamed/part_000 (variant "part_000").  They *)
(* differ in invoke only; the variable `variant` says which one is loaded. *)
(*                                                                         *)
(* A JavaScript string is a sequence of one-character strings.  An error   *)
(* message built by a template literal is the sequence of its pieces.  An  *)
(* absent property of a JavaScript object is an absent field of a record.  *)
(* A response is taken as completely received: reading its body does not   *)
(* fail at the transport level.  Characters are ASCII and well formed.     *)
(***************************************************************************)
EXTENDS Integers, Sequences, FiniteSets, TLC

\* The number of invoke calls the job runner makes for one job (first call and
\* re-invocations).
MaxInvokes == 2

-----------------------------------------------------------------------------
(* JavaScript strings                                                      *)

Range(s) == {s[i] : i \in 1..Len(s)}

Contains(s, x) == \E i \in 1..Len(s) : s[i] = x

\* White space of String.prototype.trim that occurs in the model's alphabet.
WhiteSpace == {" "}

RECURSIVE trimStart(_)
trimStart(s) ==
  IF s # <<>> /\ Head(s) \in WhiteSpace THEN trimStart(Tail(s)) ELSE s

RECURSIVE trimEnd(_)
trimEnd(s) ==
  IF s # <<>> /\ s[Len(s)] \in WhiteSpace
  THEN trimEnd(SubSeq(s, 1, Len(s) - 1))
  ELSE s

trim(s) == trimEnd(trimStart(s))

\* Character codes of the alphabet's characters that encodeURIComponent escapes.
CharCode ==
  [c \in {" ", "$", "%", "/", "@", "{", "}"} |->
     CASE c = " " -> 32
       [] c = "$" -> 36
       [] c = "%" -> 37
       [] c = "/" -> 47
       [] c = "@" -> 64
       [] c = "{" -> 123
       [] c = "}" -> 125]

HexDigit ==
  <<"0", "1", "2", "3", "4", "5", "6", "7", "8", "9", "A", "B", "C", "D", "E", "F">>

\* Characters encodeURIComponent leaves as they are, among the alphabet's:
\* A-Z a-z 0-9 - _ . ! ~ * ' ( )
Unreserved == {"a", "b", "e", "k", "l", "n", "o", "u", "v", "w", "_", "."}

encodeChar(c) ==
  IF c \in Unreserved
  THEN <<c>>
  ELSE <<"%", HexDigit[(CharCode[c] \div 16) + 1], HexDigit[(CharCode[c] % 16) + 1]>>

RECURSIVE encodeURIComponent(_)
encodeURIComponent(s) ==
  IF s = <<>> THEN <<>> ELSE encodeChar(Head(s)) \o encodeURIComponent(Tail(s))

-----------------------------------------------------------------------------
(* The job's inputs                                                        *)

Str_unknown == <<"u", "n", "k", "n", "o", "w", "n">>

\* "{$.u}": a JSONPath template placeholder.
Template == <<"{", "$", ".", "u", "}">>

\* What the template layer leaves where a template does not resolve.
Str_no_value == <<"n", "o", "_", "v", "a", "l", "u", "e">>

UPNs ==
  { <<>>, <<" ">>, <<"a", "@", "b">>, <<"a", "/", "b">>, <<" ", "a", " ">>, Template }

ParamAddresses == { <<"https://tenant.example", "/">> }

EnvAddresses == { <<"https://graph.microsoft.com">> }

\* params of invoke: userPrincipalName and address, each present or not.
ParamsSet ==
  {[x \in {} |-> <<>>]}
  \cup {[userPrincipalName |-> u] : u \in UPNs}
  \cup {[address |-> a] : a \in ParamAddresses}
  \cup {[userPrincipalName |-> u, address |-> a] : u \in UPNs, a \in ParamAddresses}

Environments ==
  {[x \in {} |-> <<>>]} \cup {[ADDRESS |-> a] : a \in EnvAddresses}

\* context.data, the job context templates are resolved against.
DataSet == {[u |-> <<"a", "@", "b">>]}

ContextSet ==
  {[environment |-> e] : e \in Environments}
  \cup {[environment |-> e, data |-> d] : e \in Environments, d \in DataSet}

Reasons == {"timeout", "shutdown"}

\* The bearer token createAuthHeaders acquires; it is opaque to the action.
Tokens == {"token"}


VARIABLES
  variant,      \* which revision of the script is loaded
  unresolved,   \* what the installed template layer leaves for an unresolved template
  params,       \* the job's params, the same at every call of the job
  context,      \* the job's context
  pc,           \* where the invoke in progress is suspended: idle, auth, fetch
  run,          \* the latest invoke call
  prev,         \* the invoke call before it
  invocations,  \* invoke calls made
  sent,         \* PATCH requests handed to fetch
  passed,       \* invoke calls that passed validation, base URL and auth headers
  handler,      \* the latest error or halt call since the latest invoke call
  directory     \* the account in the directory service

vars ==
  <<variant, unresolved, params, context, pc, run, prev, invocations, sent, passed,
    handler, directory>>

job == <<variant, unresolved, params, context>>

-----------------------------------------------------------------------------
(* JavaScript objects and errors                                           *)

EmptyObject == [x \in {} |-> <<>>]

Has(obj, field) == field \in DOMAIN obj

\* !obj[field] is false: the property is present and is a non-empty string.
Truthy(obj, field) == Has(obj, field) /\ obj[field] # <<>>

Error(message) == [name |-> "Error", message |-> message]

Msg_required_script == <<"userPrincipalName is required">>

Msg_required_part000 == <<"userPrincipalName parameter is required and cannot be empty">>

Msg_no_url == <<"No URL specified. Provide address parameter or ADDRESS environment variable">>

Msg_no_auth == <<"No authentication configured">>

IsValidationError(e) == e.message \in {Msg_required_script, Msg_required_part000}

IsConfigurationError(e) == e.message = Msg_no_url

IsApiError(e) == Len(e.message) = 6 /\ e.message[1] = "Failed to disable user: "

-----------------------------------------------------------------------------
(* The collaborators of @sgnl-actions/utils and the HTTP client            *)

\* resolveJSONPathTemplates: {result, errors}.  A template that resolves is
\* replaced by the job context's value; one that does not is replaced by what
\* the template layer leaves in its place, and an error is reported.  Anything
\* else is left alone.
resolveJSONPathTemplates(p, jobContext) ==
  IF Has(p, "userPrincipalName") /\ p.userPrincipalName = Template
  THEN IF Has(jobContext, "u")
       THEN [result |-> [p EXCEPT !.userPrincipalName = jobContext.u], errors |-> 0]
       ELSE [result |-> [p EXCEPT !.userPrincipalName = unresolved], errors |-> 1]
  ELSE [result |-> p, errors |-> 0]

\* getBaseURL: params.address, else context.environment.ADDRESS.
resolvedAddress(p, ctx) ==
  IF Truthy(p, "address") THEN p.address
  ELSE IF Truthy(ctx.environment, "ADDRESS") THEN ctx.environment.ADDRESS
  ELSE <<>>

getBaseURLThrows(p, ctx) == resolvedAddress(p, ctx) = <<>>

\* getBaseURL: a trailing slash is stripped.
getBaseURL(p, ctx) ==
  LET address == resolvedAddress(p, ctx) IN
  IF address[Len(address)] = "/" THEN SubSeq(address, 1, Len(address) - 1) ELSE address

\* createAuthHeaders: the headers it resolves to for a token it acquired.
createAuthHeaders(token) ==
  [Authorization |-> <<"Bearer ", token>>,
   Accept |-> "application/json",
   ContentType |-> "application/json"]

StatusText ==
  [s \in {200, 201, 204, 400, 401, 403, 429, 502, 503, 504} |->
     CASE s = 200 -> "OK"
       [] s = 201 -> "Created"
       [] s = 204 -> "No Content"
       [] s = 400 -> "Bad Request"
       [] s = 401 -> "Unauthorized"
       [] s = 403 -> "Forbidden"
       [] s = 429 -> "Too Many Requests"
       [] s = 502 -> "Bad Gateway"
       [] s = 503 -> "Service Unavailable"
       [] s = 504 -> "Gateway Timeout"]

JsonNull == [t |-> "null"]

JsonBool(b) == [t |-> "boolean", v |-> b]

\* The JSON objects a success body may hold.
JsonObjects ==
  { [accountEnabled |-> JsonBool(TRUE)], [accountEnabled |-> JsonBool(FALSE)],
    [accountEnabled |-> JsonNull], [id |-> "u1"] }

SuccessBodies == {[kind |-> "empty"]} \cup {[kind |-> "json", value |-> o] : o \in JsonObjects}

ErrorBodies == {[kind |-> "empty"], [kind |-> "text", text |-> "error details"]}

\* The responses the directory service may give to the PATCH.
Responses ==
  {[status |-> 204, statusText |-> StatusText[204], body |-> [kind |-> "empty"]]}
  \cup {[status |-> 200, statusText |-> StatusText[200], body |-> b] : b \in SuccessBodies}
  \cup {[status |-> 201, statusText |-> StatusText[201], body |-> b]
          : b \in {[kind |-> "empty"], [kind |-> "json", value |-> [accountEnabled |-> JsonBool(TRUE)]]}}
  \cup {[status |-> 403, statusText |-> StatusText[403], body |-> b] : b \in ErrorBodies}
  \cup {[status |-> s, statusText |-> StatusText[s],
         body |-> [kind |-> "text", text |-> "error details"]]
          : s \in {400, 401, 429, 502, 503, 504}}

\* Response.ok
ok(response) == response.status >= 200 /\ response.status <= 299

\* Response.text()
text(response) ==
  CASE response.body.kind = "empty" -> ""
    [] response.body.kind = "text" -> response.body.text
    [] response.body.kind = "json" -> "{...}"

\* Response.json() rejects when the body is not JSON.
jsonThrows(response) == response.body.kind # "json"

json(response) == response.body.value

NoRequest == [method |-> "none"]

NoResponse == [status |-> 0]


-----------------------------------------------------------------------------
(* The outcome of a call: a returned value or a thrown error               *)

Returned(value) == [kind |-> "returned", value |-> value]

Threw(error) == [kind |-> "threw", error |-> error]

Pending == [kind |-> "pending"]

\* One invoke call: the (resolved) params it works on, whether it consulted
\* createAuthHeaders, the request it sent, the response it got, its outcome.
NoRun ==
  [params |-> EmptyObject, baseUrl |-> <<>>, authConsulted |-> FALSE,
   request |-> NoRequest, response |-> NoResponse, outcome |-> [kind |-> "none"]]

NoHandler == [call |-> "none"]

\* The template layer's choice shows only where script.mjs meets a template it
\* cannot resolve.
MeetsUnresolved(v, p, ctx) ==
  /\ v = "script"
  /\ Has(p, "userPrincipalName") /\ p.userPrincipalName = Template
  /\ ~Has(ctx, "data")

Init ==
  /\ variant \in {"script", "part_000"}
  /\ params \in ParamsSet
  /\ context \in ContextSet
  /\ unresolved \in IF MeetsUnresolved(variant, params, context)
                    THEN {<<>>, Str_no_value}
                    ELSE {<<>>}
  /\ pc = "idle"
  /\ run = NoRun
  /\ prev = NoRun
  /\ invocations = 0
  /\ sent = 0
  /\ passed = 0
  /\ handler = NoHandler
  /\ directory = [accountEnabled |-> TRUE]

-----------------------------------------------------------------------------
(* disableUserAccount                                                      *)

\* Faulty variant: the body alternates with the requests already sent.
requestBody_stateful == [accountEnabled |-> sent # 0]

requestBody == [accountEnabled |-> FALSE]

\* Faulty variant: the userPrincipalName goes into the URL as it is.
disableUserAccount_unencoded(userPrincipalName, baseUrl, headers) ==
  [method |-> "PATCH",
   url |-> baseUrl \o <<"/v1.0/users/">> \o userPrincipalName,
   headers |-> headers,
   body |-> requestBody]

\* The fetch call of disableUserAccount.
disableUserAccount(userPrincipalName, baseUrl, headers) ==
  LET encodedUpn == encodeURIComponent(userPrincipalName)
      url == baseUrl \o <<"/v1.0/users/">> \o encodedUpn
  IN [method |-> "PATCH", url |-> url, headers |-> headers, body |-> requestBody]

\* The directory service applies a PATCH it accepts.
applyPatch(dir, request) == [dir EXCEPT !.accountEnabled = request.body.accountEnabled]

-----------------------------------------------------------------------------
(* invoke                                                                  *)

\* script.mjs: if (!resolvedParams.userPrincipalName)
validate_script(p) == Truthy(p, "userPrincipalName")

\* part_000: if (!params.userPrincipalName || typeof ... !== 'string' || !....trim())
validate_part000(p) ==
  /\ Truthy(p, "userPrincipalName")
  /\ trim(p.userPrincipalName) # <<>>

\* The loaded revision's validation of userPrincipalName.
validates(p) == IF variant = "script" THEN validate_script(p) ELSE validate_part000(p)

\* Faulty variant: createAuthHeaders is started before the base URL is resolved.
preamble_script_authFirst(resolvedParams, ctx) ==
  IF ~validate_script(resolvedParams)
  THEN [NoRun EXCEPT !.params = resolvedParams,
                     !.outcome = Threw(Error(Msg_required_script))]
  ELSE IF getBaseURLThrows(resolvedParams, ctx)
  THEN [NoRun EXCEPT !.params = resolvedParams,
                     !.authConsulted = TRUE,
                     !.outcome = Threw(Error(Msg_no_url))]
  ELSE [NoRun EXCEPT !.params = resolvedParams,
                     !.baseUrl = getBaseURL(resolvedParams, ctx),
                     !.authConsulted = TRUE,
                     !.outcome = Pending]

\* script.mjs, up to the call of createAuthHeaders.
preamble_script(resolvedParams, ctx) ==
  IF ~validate_script(resolvedParams)
  THEN [NoRun EXCEPT !.params = resolvedParams,
                     !.outcome = Threw(Error(Msg_required_script))]
  ELSE IF getBaseURLThrows(resolvedParams, ctx)
  THEN [NoRun EXCEPT !.params = resolvedParams, !.outcome = Threw(Error(Msg_no_url))]
  ELSE [NoRun EXCEPT !.params = resolvedParams,
                     !.baseUrl = getBaseURL(resolvedParams, ctx),
                     !.authConsulted = TRUE,
                     !.outcome = Pending]

\* part_000, up to the call of createAuthHeaders.
preamble_part000(p, ctx) ==
  IF getBaseURLThrows(p, ctx)
  THEN [NoRun EXCEPT !.params = p, !.outcome = Threw(Error(Msg_no_url))]
  ELSE [NoRun EXCEPT !.params = p,
                     !.baseUrl = getBaseURL(p, ctx),
                     !.authConsulted = TRUE,
                     !.outcome = Pending]

\* What invoke does once createAuthHeaders has resolved: script.mjs sends.
afterAuth_script(r, headers) ==
  [r EXCEPT !.request = disableUserAccount(r.params.userPrincipalName, r.baseUrl, headers)]

\* part_000 validates, then sends.
afterAuth_part000(r, headers) ==
  IF ~validate_part000(r.params)
  THEN [r EXCEPT !.outcome = Threw(Error(Msg_required_part000))]
  ELSE [r EXCEPT !.request = disableUserAccount(r.params.userPrincipalName, r.baseUrl, headers)]

\* Faulty variant: the body's accountEnabled is not read.
accountEnabledOf_ignoringBody(result) == FALSE

\* result.accountEnabled ?? false
accountEnabledOf(result) ==
  IF Has(result, "accountEnabled") /\ result.accountEnabled # JsonNull
  THEN result.accountEnabled.v
  ELSE FALSE

\* Faulty variant: the body text is left out of the message.
apiError_withoutDetails(response) ==
  Error(<<"Failed to disable user: ", ToString(response.status), " ",
          response.statusText, ". Details: ", "">>)

\* throw new Error(`Failed to disable user: ${status} ${statusText}. Details: ${errorText}`)
apiError(response) ==
  Error(<<"Failed to disable user: ", ToString(response.status), " ",
          response.statusText, ". Details: ", text(response)>>)

result_script(r, accountEnabled) ==
  [status |-> "success",
   userPrincipalName |-> r.params.userPrincipalName,
   accountEnabled |-> accountEnabled]

result_part000(r, accountEnabled) ==
  [status |-> "success",
   userPrincipalName |-> r.params.userPrincipalName,
   accountEnabled |-> accountEnabled,
   address |-> r.baseUrl]

result(r, accountEnabled) ==
  IF variant = "script" THEN result_script(r, accountEnabled)
  ELSE result_part000(r, accountEnabled)

\* invoke from the response on: the status check, the body, the result.
handleResponse(r, response) ==
  IF ~ok(response)
  THEN Threw(apiError(response))
  ELSE IF response.status # 204
  THEN IF jsonThrows(response)
       THEN Threw([name |-> "SyntaxError", message |-> <<"Unexpected end of JSON input">>])
       ELSE Returned(result(r, accountEnabledOf(json(response))))
  ELSE Returned(result(r, FALSE))

\* The job runner calls invoke, which runs up to its first await.
invoke ==
  /\ pc = "idle"
  /\ invocations < MaxInvokes
  /\ invocations' = invocations + 1
  /\ prev' = run
  /\ handler' = NoHandler
  /\ IF variant = "script"
     THEN LET jobContext == IF Has(context, "data") THEN context.data ELSE EmptyObject IN
          run' = preamble_script(resolveJSONPathTemplates(params, jobContext).result, context)
     ELSE run' = preamble_part000(params, context)
  /\ pc' = IF run'.outcome = Pending THEN "auth" ELSE "idle"
  /\ UNCHANGED <<job, sent, passed, directory>>

\* createAuthHeaders settles: it rejects, or resolves and invoke goes on to fetch.
invoke_auth ==
  /\ pc = "auth"
  /\ \/ /\ run' = [run EXCEPT !.outcome = Threw(Error(Msg_no_auth))]
        /\ pc' = "idle"
        /\ UNCHANGED <<sent, passed>>
     \/ \E token \in Tokens :
          /\ run' = IF variant = "script"
                    THEN afterAuth_script(run, createAuthHeaders(token))
                    ELSE afterAuth_part000(run, createAuthHeaders(token))
          /\ pc' = IF run'.outcome = Pending THEN "fetch" ELSE "idle"
          /\ sent' = IF run'.request # NoRequest THEN sent + 1 ELSE sent
          /\ passed' = IF validates(run.params) THEN passed + 1 ELSE passed
  /\ UNCHANGED <<job, prev, invocations, handler, directory>>

\* Faulty variant: a 503 is retried inside invoke.
invoke_fetch_retrying ==
  /\ pc = "fetch"
  /\ \E response \in Responses :
       IF response.status = 503
       THEN /\ sent' = sent + 1
            /\ UNCHANGED <<pc, run, directory>>
       ELSE /\ run' = [run EXCEPT !.response = response,
                                  !.outcome = handleResponse(run, response)]
            /\ directory' = IF ok(response) THEN applyPatch(directory, run.request)
                            ELSE directory
            /\ pc' = "idle"
            /\ UNCHANGED sent
  /\ UNCHANGED <<job, prev, invocations, passed, handler>>

\* fetch settles: it rejects (the request may or may not have reached the
\* directory), or resolves with a response and invoke runs to its end.
invoke_fetch ==
  /\ pc = "fetch"
  /\ \/ \E reached \in BOOLEAN :
          /\ run' = [run EXCEPT
                       !.outcome = Threw([name |-> "TypeError", message |-> <<"fetch failed">>])]
          /\ directory' = IF reached THEN applyPatch(directory, run.request) ELSE directory
     \/ \E response \in Responses :
          /\ run' = [run EXCEPT !.response = response,
                                !.outcome = handleResponse(run, response)]
          /\ directory' = IF ok(response) THEN applyPatch(directory, run.request)
                          ELSE directory
  /\ pc' = "idle"
  /\ UNCHANGED <<job, prev, invocations, sent, passed, handler>>

-----------------------------------------------------------------------------
(* error and halt                                                          *)

\* Faulty variant: the handler classifies by the status code in the message.
error_outcome_classifying(p) ==
  IF \E code \in {"401", "403"} : Contains(p.error.message, code)
  THEN Threw(p.error)
  ELSE Returned([status |-> "retry_requested"])

\* error: logs, then throw error.
error_outcome(p) == Threw(p.error)

\* halt: logs, then returns the halted result.
halt_outcome(p) ==
  Returned([status |-> "halted",
            userPrincipalName |->
              IF Truthy(p, "userPrincipalName") THEN p.userPrincipalName ELSE Str_unknown,
            reason |-> p.reason])

\* The job runner hands invoke's failure to the error handler.
error ==
  /\ pc = "idle"
  /\ run.outcome.kind = "threw"
  /\ LET p == [error |-> run.outcome.error] @@ params IN
     handler' = [call |-> "error", at |-> pc, params |-> p, outcome |-> error_outcome(p)]
  /\ UNCHANGED <<job, pc, run, prev, invocations, sent, passed, directory>>

\* Faulty variant: halt aborts the request in flight.
halt_cancelling ==
  /\ \E reason \in Reasons :
       LET p == [reason |-> reason] @@ params IN
       handler' = [call |-> "halt", at |-> pc, params |-> p, outcome |-> halt_outcome(p)]
  /\ pc' = "idle"
  /\ run' = IF pc = "idle" THEN run
            ELSE [run EXCEPT !.outcome = Threw([name |-> "AbortError", message |-> <<"aborted">>])]
  /\ UNCHANGED <<job, prev, invocations, sent, passed, directory>>

\* The job runner halts the job, at any point.
halt ==
  /\ \E reason \in Reasons :
       LET p == [reason |-> reason] @@ params IN
       handler' = [call |-> "halt", at |-> pc, params |-> p, outcome |-> halt_outcome(p)]
  /\ UNCHANGED <<job, pc, run, prev, invocations, sent, passed, directory>>

Next == invoke \/ invoke_auth \/ invoke_fetch \/ error \/ halt

Spec == Init /\ [][Next]_vars


-----------------------------------------------------------------------------
(* Properties                                                              *)

Completed(r) == r.outcome.kind \in {"returned", "threw"}

\* userPrincipalName is missing, empty, or empty after trimming.
BlankUpn(p) == ~Has(p, "userPrincipalName") \/ trim(p.userPrincipalName) = <<>>

\* C1: an invoke whose (resolved) userPrincipalName is missing, empty or blank
\* fails with the validation error, without consulting createAuthHeaders and
\* without sending a PATCH.
C1_BlankUpnFailsBeforeAnyNetworkCall ==
  (invocations > 0 /\ BlankUpn(run.params)) =>
    /\ ~run.authConsulted
    /\ run.request = NoRequest
    /\ run.outcome.kind = "threw"
    /\ IsValidationError(run.outcome.error)

\* The character an escape sequence %XY stands for.
CharOfCode(n) == CHOOSE c \in DOMAIN CharCode : CharCode[c] = n

HexValue(d) == (CHOOSE i \in 1..16 : HexDigit[i] = d) - 1

RECURSIVE percentDecode(_)
percentDecode(s) ==
  IF s = <<>> THEN <<>>
  ELSE IF Head(s) = "%"
  THEN <<CharOfCode(16 * HexValue(s[2]) + HexValue(s[3]))>> \o percentDecode(SubSeq(s, 4, Len(s)))
  ELSE <<Head(s)>> \o percentDecode(Tail(s))

\* The part of the request's URL after <baseUrl>/v1.0/users/.
UpnSegment(request, baseUrl) == SubSeq(request.url, Len(baseUrl) + 2, Len(request.url))

\* C2: every request invoke sends is a PATCH of <baseUrl>/v1.0/users/<segment>
\* with body {accountEnabled: false}, where the segment holds no raw '@', '/'
\* or space and percent-decodes to the userPrincipalName.
C2_RequestIsPatchOfEncodedUpn ==
  run.request # NoRequest =>
    LET baseUrl == getBaseURL(run.params, context)
        segment == UpnSegment(run.request, baseUrl)
    IN /\ run.request.method = "PATCH"
       /\ run.request.body = [accountEnabled |-> FALSE]
       /\ SubSeq(run.request.url, 1, Len(baseUrl) + 1) = baseUrl \o <<"/v1.0/users/">>
       /\ Range(segment) \cap {"@", "/", " "} = {}
       /\ percentDecode(segment) = run.params.userPrincipalName

C2_Witness ==
  /\ run.request # NoRequest
  /\ {"@", "/", " "} \cap Range(run.params.userPrincipalName) # {}
  /\ Has(params, "address")

\* The accountEnabled a 2xx response stands for: false for 204, else the body's
\* accountEnabled when it has one, else false.
ReportedAccountEnabled(response) ==
  IF response.status = 204 \/ response.body.kind # "json" THEN FALSE
  ELSE IF Has(response.body.value, "accountEnabled")
          /\ response.body.value.accountEnabled.t = "boolean"
  THEN response.body.value.accountEnabled.v
  ELSE FALSE

SuccessResult(r) ==
  [status |-> "success",
   userPrincipalName |-> r.params.userPrincipalName,
   accountEnabled |-> ReportedAccountEnabled(r.response)]

StatusDigits ==
  [s \in DOMAIN StatusText |->
     CASE s = 200 -> "200" [] s = 201 -> "201" [] s = 204 -> "204" [] s = 400 -> "400"
       [] s = 401 -> "401" [] s = 403 -> "403" [] s = 429 -> "429" [] s = 502 -> "502"
       [] s = 503 -> "503" [] s = 504 -> "504"]

\* C4: on a non-2xx response invoke returns nothing and throws an error whose
\* message holds the status code, the status text and the body text; invoke
\* returns (status "success") only when a PATCH was sent and answered 2xx.
C4_Non2xxThrowsApiError ==
  /\ (run.response # NoResponse /\ ~ok(run.response)) =>
       /\ run.outcome.kind = "threw"
       /\ Contains(run.outcome.error.message, StatusDigits[run.response.status])
       /\ Contains(run.outcome.error.message, run.response.statusText)
       /\ Contains(run.outcome.error.message, text(run.response))
  /\ run.outcome.kind = "returned" =>
       /\ run.outcome.value.status = "success"
       /\ run.request # NoRequest
       /\ run.response # NoResponse
       /\ run.response.status \in 200..299

C4_Witness ==
  /\ run.response # NoResponse
  /\ run.response.status = 403
  /\ run.response.body.kind = "text"
  /\ run.outcome.kind = "threw"


\* The status code an API error's message carries.
StatusOf(e) == e.message[2]

\* C5: the error handler returns {status: "retry_requested"} for the error of
\* a 429, 502, 503 or 504 response and rethrows the error of a 401 or 403.
C5_ErrorHandlerClassifies ==
  (handler.call = "error" /\ IsApiError(handler.params.error)) =>
    /\ StatusOf(handler.params.error) \in {"429", "502", "503", "504"} =>
         handler.outcome = Returned([status |-> "retry_requested"])
    /\ StatusOf(handler.params.error) \in {"401", "403"} =>
         handler.outcome = Threw(handler.params.error)

\* What error and halt leave alone: the invoke in progress, its request and
\* outcome, the requests sent, the directory.
Rest == <<job, pc, run, prev, invocations, sent, passed, directory>>

C7_HaltOnlyReports ==
  /\ [](handler.call = "halt" =>
          handler.outcome =
            Returned([status |-> "halted",
                      userPrincipalName |->
                        IF Has(params, "userPrincipalName") /\ params.userPrincipalName # <<>>
                        THEN params.userPrincipalName
                        ELSE <<"u", "n", "k", "n", "o", "w", "n">>,
                      reason |-> handler.params.reason]))
  /\ [][handler'.call = "halt" /\ handler' # handler => UNCHANGED Rest]_vars

\* halt was called while the PATCH was in flight, and the invoke then completed.
C7_Witness ==
  /\ handler.call = "halt"
  /\ handler.at = "fetch"
  /\ handler.params.reason = "timeout"
  /\ pc = "idle"
  /\ run.outcome.kind = "returned"

\* C8: an invoke with a valid userPrincipalName and neither params.address nor
\* the environment's ADDRESS fails with the configuration error, without
\* consulting createAuthHeaders and without sending a PATCH.
C8_NoBaseUrlFailsBeforeAnyNetworkCall ==
  (/\ invocations > 0
   /\ ~BlankUpn(run.params)
   /\ ~Has(params, "address")
   /\ ~Has(context.environment, "ADDRESS")) =>
    /\ pc = "idle"
    /\ run.outcome.kind = "threw"
    /\ IsConfigurationError(run.outcome.error)
    /\ ~run.authConsulted
    /\ run.request = NoRequest
    /\ sent = 0

C8_Witness ==
  /\ invocations > 0
  /\ ~BlankUpn(run.params)
  /\ ~Has(params, "address")
  /\ ~Has(context.environment, "ADDRESS")
  /\ run.outcome.kind = "threw"

\* C9: the PATCH requests sent are as many as the invoke calls that passed
\* validation, base-URL resolution and auth-header construction; a request is
\* sent only by an invoke whose auth headers have just resolved, one per call,
\* never again after a response or a transport failure, and never by error or
\* halt.
C9_OnePatchPerPassedInvoke ==
  /\ [](sent = passed /\ sent <= invocations)
  /\ [][sent' # sent =>
          /\ pc = "auth" /\ pc' = "fetch"
          /\ sent' = sent + 1
          /\ run'.request # NoRequest]_vars
  /\ [][pc = "auth" /\ pc' = "fetch" => sent' = sent + 1]_vars

\* A re-invocation after a 503: two calls, two requests.
C9_Witness ==
  /\ invocations = 2
  /\ prev.response # NoResponse /\ prev.response.status = 503
  /\ pc = "idle"
  /\ Completed(run)
  /\ sent = 2

=============================================================================
